---------------------------- MODULE Spec2Model ----------------------------
(* Model of the contract-audit tool (tools/audit.js): the auditContract    *)
(* handler, analyzeAddress and its helpers, as a state machine with one    *)
(* step per await point.  The node (web3) and the explorer (Etherscan via  *)
(* axios) are the environment: each call returns a response drawn from a   *)
(* small set, or throws.  Spec is the audit; UnitSpec applies the helpers  *)
(* checkIfVerified, detectContractStandards, detectContractTypeFromBytecode *)
(* and analyzeContractSecurity on their own to arguments from bounded sets. *)
EXTENDS Integers, Sequences, FiniteSets, TLC

(***************************************************************************)
(* Bounds of the model.                                                    *)
(***************************************************************************)
\* Number of hex characters of an address (40 in the program).
AddrLen == 2
\* Entries appended to a sample ABI, chunks of a bytecode, tokens appended
\* to a sample source, when a helper is applied on its own.
MaxAbiAdded == 1
MaxCodeLen == 4
MaxSrcAdded == 2
\* Times a helper is applied to the same input.
MaxApply == 2

(***************************************************************************)
(* JavaScript values.  A string-valued field holds a string, or one of the *)
(* two markers below; any other field holds a tagged record.               *)
(***************************************************************************)
SNull == "null"
SUndef == "undefined"
JNull == [t |-> "null"]
JUndef == [t |-> "undefined"]
Val(x) == [t |-> "val", v |-> x]
JObject == [t |-> "object"]

\* A field is populated when it is neither null nor undefined (missing).
SPopulated(s) == s \notin {SNull, SUndef}
JPopulated(j) == j.t \notin {"null", "undefined"}

RECURSIVE SumSeq(_)
SumSeq(s) == IF s = <<>> THEN 0 ELSE Head(s) + SumSeq(Tail(s))
SeqsUpTo(S, n) == UNION {[1..k -> S] : k \in 0..n}

(***************************************************************************)
(* Addresses: sequences of AddrLen hex characters after the 0x prefix.     *)
(***************************************************************************)
HexChars == {"1", "a", "A"}
Addresses == [1..AddrLen -> HexChars]

ToLowerChar(c) == IF c = "A" THEN "a" ELSE c
ToUpperChar(c) == IF c = "a" THEN "A" ELSE c
ToLower(a) == [i \in DOMAIN a |-> ToLowerChar(a[i])]
ToUpper(a) == [i \in DOMAIN a |-> ToUpperChar(a[i])]
CharCode(c) == IF c = "1" THEN 1 ELSE 10

\* Stand-in for the i-th nibble of keccak256 of the lower-case address.
HashNibble(lower, i) ==
  (3 * SumSeq([k \in DOMAIN lower |-> CharCode(lower[k])]) + 5 * i) % 16

\* web3.utils.toChecksumAddress: a character is upper-cased iff the hash
\* nibble at its position exceeds 7.
toChecksumAddress(a) ==
  LET lower == ToLower(a)
  IN  [i \in DOMAIN a |->
         IF HashNibble(lower, i) > 7 THEN ToUpperChar(lower[i]) ELSE lower[i]]

\* web3.utils.isAddress: all-lower-case and all-upper-case addresses are
\* accepted, a mixed-case one only when its casing is the checksum.
isAddress(a) ==
  \/ a = ToLower(a)
  \/ a = ToUpper(a)
  \/ a = toChecksumAddress(a)

(***************************************************************************)
(* Bytecode: the hex string after 0x, as a sequence of chunks ("0x" is the *)
(* empty sequence, "0x0" the single nibble "0").  includes() is chunk      *)
(* membership.                                                             *)
(***************************************************************************)
EmptyCode == <<>>
ZeroCode == <<"0">>
Includes(s, pat) == \E i \in DOMAIN s : s[i] = pat

NodeCodes ==
  { EmptyCode, ZeroCode,
    <<"6080604052">>,
    <<"6080604052", "06fdde03", "95d89b41", "18160ddd">>,
    <<"01ffc9a7", "e8a3d485">> }

\* Mutant: whatever getCode returns counts as code.
IsContractCodeAlways(code) == TRUE

\* Mutant: only "0x" counts as no code.
IsContractCodeIgnoresZero(code) == code # EmptyCode

\* checkIfContract, line 167.
IsContractCode(code) == code # EmptyCode /\ code # ZeroCode

(***************************************************************************)
(* Source text: a sequence of tokens; its length is the sum of the token   *)
(* lengths.                                                                *)
(***************************************************************************)
TokLen(tok) ==
  CASE tok = "{" -> 1
    [] tok = "}" -> 1
    [] tok = "call.value" -> 10
    [] tok = "ReentrancyGuard" -> 15
    [] tok = "tx.origin" -> 9
    [] tok = ".call(" -> 6
    [] tok = ".delegatecall(" -> 14
    [] tok = "require(" -> 8
    [] tok = "block.timestamp" -> 15
    [] tok = "now" -> 3
    [] tok = "selfdestruct" -> 12
    [] tok = "suicide" -> 7
    [] OTHER -> 1
StrLen(src) == SumSeq([i \in DOMAIN src |-> TokLen(src[i])])

EmptyObjectMarker == <<"{", "}">>

(***************************************************************************)
(* Responses of the node (web3.eth) and of the explorer (axios.get).  A    *)
(* call either throws an Error with a message or returns.                  *)
(***************************************************************************)
NetErrors == {"Network Error", "Request failed with status code 502"}
Thrown == {[ok |-> FALSE, message |-> m] : m \in NetErrors}

GetCodeResponses == Thrown \cup {[ok |-> TRUE, code |-> c] : c \in NodeCodes}

\* Balances in wei, as decimal digit strings.
OneEtherWei == <<1>> \o [i \in 1..18 |-> 0]
Balances == { <<0>>, <<1, 5>>, OneEtherWei }
GetBalanceResponses == Thrown \cup {[ok |-> TRUE, balance |-> b] : b \in Balances}
GetTransactionCountResponses == Thrown \cup {[ok |-> TRUE, count |-> n] : n \in {0, 7}}

Creators == {"0xCreator"}
TxHashes == {"0xTxHash"}
CreationEntries == {[contractCreator |-> c, txHash |-> h] : c \in Creators, h \in TxHashes}
\* getcontractcreation: response.data = {status, result}
CreationResponses ==
  Thrown \cup
  {[ok |-> TRUE, status |-> st, result |-> r] :
     st \in {"0", "1"},
     r \in {JNull, Val(<<>>)} \cup {Val(<<e>>) : e \in CreationEntries}}

\* eth_getTransactionByHash: txResponse.data.result, with blockNumber a hex
\* string (its digits) or null for a pending transaction.
BlockNumbers == {JNull, Val(<<1, 0>>)}
TxResponses ==
  Thrown \cup
  {[ok |-> TRUE, result |-> r] :
     r \in {JNull} \cup {Val([blockNumber |-> b]) : b \in BlockNumbers}}

\* getblockreward: blockResponse.data = {status, result}
TimeStamps == {"86400"}
BlockResponses ==
  Thrown \cup
  {[ok |-> TRUE, status |-> st, result |-> r] :
     st \in {"0", "1"},
     r \in {JNull} \cup {Val([timeStamp |-> ts]) : ts \in TimeStamps \cup {SUndef}}}

\* ABI arrays.
Fn(n) == [type |-> "function", name |-> n]
Ev(n) == [type |-> "event", name |-> n]
erc20Functions ==
  <<"totalSupply", "balanceOf", "transfer", "transferFrom", "approve", "allowance">>
erc721Functions ==
  <<"balanceOf", "ownerOf", "safeTransferFrom", "transferFrom", "approve",
    "getApproved", "setApprovalForAll", "isApprovedForAll">>
erc1155Functions ==
  <<"balanceOf", "balanceOfBatch", "setApprovalForAll", "isApprovedForAll",
    "safeTransferFrom", "safeBatchTransferFrom">>
FnsOf(names) == [i \in DOMAIN names |-> Fn(names[i])]

\* The serialized ABI of a getsourcecode result: text that is not JSON, or
\* the JSON text of a value.
NotJson == [json |-> FALSE]
Json(x) == [json |-> TRUE, value |-> x]
AbiPayloads ==
  { NotJson, Json(JObject), Json(Val(<<>>)),
    Json(Val(FnsOf(erc20Functions) \o <<Ev("Transfer")>>)) }

SampleSources ==
  { <<>>, EmptyObjectMarker, <<"{">>,
    <<"call.value">>,
    <<"call.value", "ReentrancyGuard">>,
    <<"require(", ".call(", "now">> }
ContractNames == {"", "Token"}
ContractDatas ==
  {[SourceCode |-> sc, ContractName |-> n, ABI |-> a] :
     sc \in {JUndef} \cup {Val(src) : src \in SampleSources},
     n \in ContractNames, a \in AbiPayloads}
\* getsourcecode: response.data = {status, result}
SourceResponses ==
  Thrown \cup
  {[ok |-> TRUE, status |-> st, result |-> r] :
     st \in {"0", "1"},
     r \in {JNull, Val(<<>>)} \cup {Val(<<cd>>) : cd \in ContractDatas}}

(***************************************************************************)
(* A helper applied on its own: the helper and its argument, and what it   *)
(* returned.                                                               *)
(***************************************************************************)
VARIABLES unit, out

(***************************************************************************)
(* Pure helpers of the audit.                                              *)
(***************************************************************************)
\* JavaScript truthiness of the value of isVerified (see VerifiedFlag).
Truthy(flag) == flag = "true"
STruthy(s) == s \notin {SNull, SUndef, ""}

\* checkIfVerified, line 238: a && b && c yields the first falsy operand.
VerifiedFlag(sourceCode) ==
  IF sourceCode.t = "undefined" THEN "undefined"
  ELSE IF sourceCode.t = "null" THEN "null"
  ELSE IF sourceCode.v = <<>> THEN "emptystring"
  ELSE IF sourceCode.v = EmptyObjectMarker THEN "false"
  ELSE IF StrLen(sourceCode.v) > 2 THEN "true" ELSE "false"

NotVerifiedInfo ==
  [isVerified |-> "false", contractName |-> SUndef, sourceCode |-> JUndef, abi |-> JUndef]

\* checkIfVerified, line 232: the response has no first result.
NoFirstResult(resp) ==
  resp.status # "1" \/ resp.result.t = "null" \/ resp.result.v = <<>>

\* checkIfVerified, line 244: JSON.parse of the ABI of a verified contract
\* throws.
AbiParseThrows(resp) ==
  /\ resp.ok
  /\ ~NoFirstResult(resp)
  /\ Truthy(VerifiedFlag(resp.result.v[1].SourceCode))
  /\ ~resp.result.v[1].ABI.json

\* checkIfVerified, lines 231-245, on a response that was received and whose
\* ABI parses.
checkIfVerifiedOn(resp) ==
  IF NoFirstResult(resp)
  THEN NotVerifiedInfo
  ELSE LET contractData == resp.result.v[1]
           isVerified == VerifiedFlag(contractData.SourceCode)
       IN  [isVerified |-> isVerified,
            contractName |-> contractData.ContractName,
            sourceCode |-> contractData.SourceCode,
            abi |-> IF Truthy(isVerified) THEN contractData.ABI.value ELSE JNull]

\* checkIfVerified, lines 226-250, as a function of what axios.get did: an
\* exception of the call or of JSON.parse is caught at line 246.
checkIfVerified(resp) ==
  IF ~resp.ok \/ AbiParseThrows(resp) THEN NotVerifiedInfo ELSE checkIfVerifiedOn(resp)

\* Mutant: every name of the ABI is a required one.
EveryListed(required, names) == \A i \in DOMAIN names : Includes(required, names[i])

\* detectContractStandards, lines 278-280: required.every(f => names.includes(f)).
Every(required, names) == \A i \in DOMAIN required : Includes(names, required[i])

\* Mutant: the names of all entries, events included.
functionNamesOfAnyType(abi) == [i \in DOMAIN abi |-> abi[i].name]

\* detectContractStandards, lines 273-275.
functionNamesOf(abi) ==
  LET fns == SelectSeq(abi, LAMBDA item : item.type = "function")
  IN  [i \in DOMAIN fns |-> fns[i].name]

\* detectContractStandards, lines 258-287.
detectContractStandards(abi) ==
  IF abi.t # "val"
  THEN [isERC20 |-> FALSE, isERC721 |-> FALSE, isERC1155 |-> FALSE]
  ELSE LET functionNames == functionNamesOf(abi.v)
       IN  [isERC20 |-> Every(erc20Functions, functionNames),
            isERC721 |-> Every(erc721Functions, functionNames),
            isERC1155 |-> Every(erc1155Functions, functionNames)]

\* Mutant: the ERC165 test comes before the token test.
detectContractTypeFromBytecodeErc165First(bytecode) ==
  IF Includes(bytecode, "01ffc9a7") THEN "Supports ERC165 Interface Detection"
  ELSE IF Includes(bytecode, "06fdde03") /\ Includes(bytecode, "95d89b41")
          /\ Includes(bytecode, "18160ddd")
  THEN "Likely Token (ERC20/ERC721)"
  ELSE IF Includes(bytecode, "e8a3d485") THEN "Possible Uniswap-related contract"
  ELSE IF Includes(bytecode, "6080604052") THEN "Solidity 0.4.x+ Contract"
  ELSE "Unknown Contract Type"

\* Mutant: no label when no rule matches.
detectContractTypeFromBytecodeNoDefault(bytecode) ==
  IF Includes(bytecode, "06fdde03") /\ Includes(bytecode, "95d89b41")
     /\ Includes(bytecode, "18160ddd")
  THEN "Likely Token (ERC20/ERC721)"
  ELSE IF Includes(bytecode, "01ffc9a7") THEN "Supports ERC165 Interface Detection"
  ELSE IF Includes(bytecode, "e8a3d485") THEN "Possible Uniswap-related contract"
  ELSE IF Includes(bytecode, "6080604052") THEN "Solidity 0.4.x+ Contract"
  ELSE SUndef

\* detectContractTypeFromBytecode, lines 294-315.
detectContractTypeFromBytecode(bytecode) ==
  IF Includes(bytecode, "06fdde03") /\ Includes(bytecode, "95d89b41")
     /\ Includes(bytecode, "18160ddd")
  THEN "Likely Token (ERC20/ERC721)"
  ELSE IF Includes(bytecode, "01ffc9a7") THEN "Supports ERC165 Interface Detection"
  ELSE IF Includes(bytecode, "e8a3d485") THEN "Possible Uniswap-related contract"
  ELSE IF Includes(bytecode, "6080604052") THEN "Solidity 0.4.x+ Contract"
  ELSE "Unknown Contract Type"

\* The regular expression of line 345, require\s*\(\s*.*\.call\s*\( : a
\* require( followed on the same line by .call( .
MatchesRequireCall(src) ==
  \E i, j \in DOMAIN src :
    /\ i < j
    /\ src[i] = "require("
    /\ src[j] = ".call("
    /\ \A k \in (i + 1)..(j - 1) : src[k] # "\n"

Issue(sev, title) == [severity |-> sev, issue |-> title]

\* Mutant: the findings list outlives the call that filled it.
FreshIssuesKept ==
  IF unit.fn = "analyzeContractSecurity" /\ out.t = "val" THEN out.v.issues ELSE <<>>

\* analyzeContractSecurity, line 323: the list each call starts from.
FreshIssues == <<>>

\* Mutant: the reentrancy rule does not look for the guard.
analyzeContractSecurityNoGuardTest(sourceCode) ==
  LET r1 == IF Includes(sourceCode, "call.value")
            THEN <<Issue("High", "Potential reentrancy vulnerability")>> ELSE <<>>
      r2 == IF Includes(sourceCode, "tx.origin")
            THEN <<Issue("Medium", "tx.origin used for authentication")>> ELSE <<>>
      r3 == IF (Includes(sourceCode, ".call(") \/ Includes(sourceCode, ".delegatecall("))
               /\ ~MatchesRequireCall(sourceCode)
            THEN <<Issue("Medium", "Unchecked external call")>> ELSE <<>>
      r4 == IF Includes(sourceCode, "block.timestamp") \/ Includes(sourceCode, "now")
            THEN <<Issue("Low", "Timestamp dependence")>> ELSE <<>>
      r5 == IF Includes(sourceCode, "selfdestruct") \/ Includes(sourceCode, "suicide")
            THEN <<Issue("High", "Unprotected self-destruct")>> ELSE <<>>
      issues == r1 \o r2 \o r3 \o r4 \o r5
  IN  [issuesFound |-> Len(issues) > 0, issues |-> issues]

\* Mutant: the rules are an else-if chain, the first finding ends the scan.
analyzeContractSecurityElseIf(sourceCode) ==
  LET issues ==
        IF Includes(sourceCode, "call.value") /\ ~Includes(sourceCode, "ReentrancyGuard")
        THEN <<Issue("High", "Potential reentrancy vulnerability")>>
        ELSE IF Includes(sourceCode, "tx.origin")
        THEN <<Issue("Medium", "tx.origin used for authentication")>>
        ELSE IF (Includes(sourceCode, ".call(") \/ Includes(sourceCode, ".delegatecall("))
                /\ ~MatchesRequireCall(sourceCode)
        THEN <<Issue("Medium", "Unchecked external call")>>
        ELSE IF Includes(sourceCode, "block.timestamp") \/ Includes(sourceCode, "now")
        THEN <<Issue("Low", "Timestamp dependence")>>
        ELSE IF Includes(sourceCode, "selfdestruct") \/ Includes(sourceCode, "suicide")
        THEN <<Issue("High", "Unprotected self-destruct")>>
        ELSE <<>>
  IN  [issuesFound |-> Len(issues) > 0, issues |-> issues]

\* analyzeContractSecurity, lines 322-375.
analyzeContractSecurity(sourceCode) ==
  LET r1 == IF Includes(sourceCode, "call.value") /\ ~Includes(sourceCode, "ReentrancyGuard")
            THEN <<Issue("High", "Potential reentrancy vulnerability")>> ELSE <<>>
      r2 == IF Includes(sourceCode, "tx.origin")
            THEN <<Issue("Medium", "tx.origin used for authentication")>> ELSE <<>>
      r3 == IF (Includes(sourceCode, ".call(") \/ Includes(sourceCode, ".delegatecall("))
               /\ ~MatchesRequireCall(sourceCode)
            THEN <<Issue("Medium", "Unchecked external call")>> ELSE <<>>
      r4 == IF Includes(sourceCode, "block.timestamp") \/ Includes(sourceCode, "now")
            THEN <<Issue("Low", "Timestamp dependence")>> ELSE <<>>
      r5 == IF Includes(sourceCode, "selfdestruct") \/ Includes(sourceCode, "suicide")
            THEN <<Issue("High", "Unprotected self-destruct")>> ELSE <<>>
      issues == FreshIssues \o r1 \o r2 \o r3 \o r4 \o r5
  IN  [issuesFound |-> Len(issues) > 0, issues |-> issues]

\* web3.utils.fromWei(balance, 'ether'): the decimal point is placed
\* EtherDecimals digits from the right; the fraction loses its trailing zeros.
EtherDecimals == 18
RECURSIVE StripTrailingZeros(_)
StripTrailingZeros(d) ==
  IF d # <<>> /\ d[Len(d)] = 0 THEN StripTrailingZeros(SubSeq(d, 1, Len(d) - 1)) ELSE d
RECURSIVE StripLeadingZeros(_)
StripLeadingZeros(d) ==
  IF Len(d) > 1 /\ d[1] = 0 THEN StripLeadingZeros(Tail(d)) ELSE d
fromWei(balance) ==
  LET padded == [i \in 1..(EtherDecimals + 1) |-> 0] \o balance
      cut == Len(padded) - EtherDecimals
  IN  [whole |-> StripLeadingZeros(SubSeq(padded, 1, cut)),
       fraction |-> StripTrailingZeros(SubSeq(padded, cut + 1, Len(padded)))]

\* parseInt(blockNumber, 16) on the digits of a hex string.
RECURSIVE parseIntHex(_)
parseIntHex(d) ==
  IF d = <<>> THEN 0 ELSE 16 * parseIntHex(SubSeq(d, 1, Len(d) - 1)) + d[Len(d)]

(***************************************************************************)
(* The report object.  A key the object does not have reads as undefined.  *)
(***************************************************************************)
\* Mutant: the result object starts with a zero balance and count.
InitialResultWithBalance(formattedAddress, isContract) ==
  [address |-> formattedAddress,
   isContract |-> isContract,
   isVerified |-> "false",
   contractName |-> SNull,
   contractCreator |-> SNull,
   creationTx |-> SNull,
   creationTimestamp |-> SNull,
   contractCode |-> JNull,
   sourceCode |-> JNull,
   abi |-> JNull,
   error |-> SNull,
   ethBalance |-> Val([whole |-> <<0>>, fraction |-> <<>>]),
   transactionCount |-> Val(0),
   standards |-> JUndef,
   probableType |-> SUndef,
   securityAnalysis |-> JUndef]

\* analyzeAddress, lines 76-88.
InitialResult(formattedAddress, isContract) ==
  [address |-> formattedAddress,
   isContract |-> isContract,
   isVerified |-> "false",
   contractName |-> SNull,
   contractCreator |-> SNull,
   creationTx |-> SNull,
   creationTimestamp |-> SNull,
   contractCode |-> JNull,
   sourceCode |-> JNull,
   abi |-> JNull,
   error |-> SNull,
   ethBalance |-> JUndef,
   transactionCount |-> JUndef,
   standards |-> JUndef,
   probableType |-> SUndef,
   securityAnalysis |-> JUndef]

\* analyzeAddress, lines 143-153: the report of the outer catch.
analyzeAddressCatch(address, message) ==
  [address |-> address,
   isContract |-> FALSE,
   isVerified |-> "false",
   contractName |-> SUndef,
   contractCreator |-> SUndef,
   creationTx |-> SUndef,
   creationTimestamp |-> SUndef,
   contractCode |-> JNull,
   sourceCode |-> JNull,
   abi |-> JUndef,
   error |-> message,
   ethBalance |-> JUndef,
   transactionCount |-> JUndef,
   standards |-> JUndef,
   probableType |-> SUndef,
   securityAnalysis |-> JUndef]

\* No object yet (before line 76, or before analyzeAddress returns).
NoResult == analyzeAddressCatch(<<>>, SUndef)

(***************************************************************************)
(* formatAnalysisResults, lines 431-504: the text as a sequence of lines.  *)
(***************************************************************************)
Line(label, shown) == [label |-> label, shown |-> shown]
\* A template literal prints null and undefined as those words.
Show(s) ==
  [t |-> IF s = SNull THEN "null" ELSE IF s = SUndef THEN "undefined" ELSE "val", v |-> s]
YesNo(b) == [t |-> "val", v |-> IF b THEN "Yes" ELSE "No"]

\* Number(creationTimestamp): null is 0, a decimal string its value.
ToNumber(ts) == IF ts = "86400" THEN 86400 ELSE 0
\* new Date(creationTimestamp * 1000).toLocaleString()
CreationTime(ts) ==
  IF ts = SUndef THEN [t |-> "Invalid Date"]
  ELSE [t |-> "date", ms |-> ToNumber(ts) * 1000]

\* extractFunctionSignatures / extractEventSignatures, lines 382-424.
NamesOfType(abi, type) ==
  LET items == SelectSeq(abi, LAMBDA item : item.type = type)
  IN  [i \in DOMAIN items |-> items[i].name]
Slice5(names) == SubSeq(names, 1, IF Len(names) > 5 THEN 5 ELSE Len(names))
ListLines(title, item, more, names) ==
  <<Line(title, Val(Len(names)))>>
  \o [i \in DOMAIN Slice5(names) |-> Line(item, Show(names[i]))]
  \o (IF Len(names) > 5 THEN <<Line(more, Val(Len(names) - 5))>> ELSE <<>>)

\* abi.filter is not a function: result.abi is truthy and no array (line 463).
FormatThrows(result) ==
  result.isContract /\ Truthy(result.isVerified) /\ result.abi.t = "object"

formatAnalysisResults(result) ==
  LET head ==
        << Line("CONTRACT ANALYSIS RESULTS", Val(<<>>)),
           Line("Address", Val(result.address)),
           Line("Is Contract", YesNo(result.isContract)) >>
      creator ==
        IF STruthy(result.contractCreator)
        THEN << Line("Contract Creator", Show(result.contractCreator)),
                Line("Creation Tx", Show(result.creationTx)),
                Line("Creation Time", CreationTime(result.creationTimestamp)) >>
        ELSE <<>>
      standards ==
        IF result.standards.t = "val"
        THEN << Line("CONTRACT STANDARDS", Val(<<>>)),
                Line("ERC20", YesNo(result.standards.v.isERC20)),
                Line("ERC721 (NFT)", YesNo(result.standards.v.isERC721)),
                Line("ERC1155 (Multi Token)", YesNo(result.standards.v.isERC1155)) >>
        ELSE <<>>
      abi ==
        IF result.abi.t = "val"
        THEN ListLines("FUNCTIONS", "function", "more functions",
                       NamesOfType(result.abi.v, "function"))
             \o ListLines("EVENTS", "event", "more events",
                          NamesOfType(result.abi.v, "event"))
        ELSE <<>>
      security ==
        IF result.securityAnalysis.t = "val" /\ result.securityAnalysis.v.issuesFound
        THEN <<Line("SECURITY ISSUES", Val(<<>>))>>
             \o [i \in DOMAIN result.securityAnalysis.v.issues |->
                   Line("issue", Val(result.securityAnalysis.v.issues[i]))]
        ELSE <<>>
      verified ==
        <<Line("Contract Name",
               Show(IF STruthy(result.contractName) THEN result.contractName ELSE "Unknown"))>>
        \o standards \o abi \o security
      unverified ==
        (IF STruthy(result.probableType)
         THEN <<Line("Probable Contract Type", Show(result.probableType))>> ELSE <<>>)
        \o <<Line("Contract is not verified on Etherscan. Limited analysis available.",
                  Val(<<>>))>>
      info ==
        IF STruthy(result.error) THEN <<Line("Info", Show(result.error))>> ELSE <<>>
  IN  IF ~result.isContract
      THEN head \o << Line("ETH Balance", result.ethBalance),
                      Line("Transaction Count", result.transactionCount) >>
      ELSE head
           \o <<Line("Is Verified", YesNo(Truthy(result.isVerified)))>>
           \o creator
           \o (IF Truthy(result.isVerified) THEN verified ELSE unverified)
           \o info

\* auditContract, lines 43-50: the text of the handler's catch.
auditContractCatch(message) == <<Line("Error analyzing contract", Show(message))>>

(***************************************************************************)
(* State.  Every variable is a function of the audit invocation: each call *)
(* of the auditContract handler has its own locals.                        *)
(***************************************************************************)
VARIABLES
  pc,                \* where the invocation is suspended
  address,           \* the handler's argument
  formattedAddress,  \* analyzeAddress, line 71
  result,            \* analyzeAddress, line 76
  creationInfo,      \* locals of getContractCreationInfo
  verificationInfo,  \* analyzeAddress, line 114
  bytecode,          \* analyzeAddress, line 118
  report,            \* what analyzeAddress returned to the handler
  response,          \* the text the handler returned
  calls,             \* the calls made so far, with their outcomes
  outstanding        \* the requests sent to the node or the explorer and
                     \* not answered yet

auditVars ==
  <<pc, address, formattedAddress, result, creationInfo, verificationInfo,
    bytecode, report, response, calls, outstanding>>
vars == <<auditVars, unit, out>>

\* The invocations that can exist; a behaviour runs those of DOMAIN pc.
Audits == {1, 2}
Running(self) == self \in DOMAIN pc

NoCreationInfo ==
  [contractCreator |-> SUndef, txHash |-> SUndef, timestamp |-> SUndef,
   blockNumber |-> JUndef]
NoAddress == <<>>
NoBytecode == JUndef
NoResponse == <<>>

Call(op, outcome) == [op |-> op, outcome |-> outcome]

InitFor(ids) ==
  /\ pc = [i \in ids |-> "auditContract"]
  /\ address \in [ids -> Addresses]
  /\ formattedAddress = [i \in ids |-> NoAddress]
  /\ result = [i \in ids |-> NoResult]
  /\ creationInfo = [i \in ids |-> NoCreationInfo]
  /\ verificationInfo = [i \in ids |-> NotVerifiedInfo]
  /\ bytecode = [i \in ids |-> NoBytecode]
  /\ report = [i \in ids |-> NoResult]
  /\ response = [i \in ids |-> NoResponse]
  /\ calls = [i \in ids |-> <<>>]
  /\ outstanding = [i \in ids |-> {}]

\* The answers drawn when two audits run together: one failure and the
\* answers that lead an audit through each of its branches.
OneThrown == {[ok |-> FALSE, message |-> "Network Error"]}
PairGetCodeResponses ==
  OneThrown \cup {r \in GetCodeResponses : r.ok /\ r.code \in {EmptyCode, <<"6080604052">>}}
PairGetBalanceResponses ==
  OneThrown \cup {r \in GetBalanceResponses : r.ok /\ r.balance = <<1, 5>>}
PairGetTransactionCountResponses ==
  {r \in GetTransactionCountResponses : r.ok /\ r.count = 7}
PairCreationResponses ==
  OneThrown \cup
  {r \in CreationResponses :
     r.ok /\ r.status = "1" /\ r.result \in {Val(<<e>>) : e \in CreationEntries}}
PairTxResponses ==
  {r \in TxResponses :
     r.ok /\ r.result \in {JNull, Val([blockNumber |-> Val(<<1, 0>>)])}}
PairBlockResponses ==
  {r \in BlockResponses :
     r.ok /\ r.status = "1" /\ r.result = Val([timeStamp |-> "86400"])}
PairContractDatas ==
  {cd \in ContractDatas :
     /\ cd.ContractName = "Token"
     /\ cd.SourceCode \in {Val(<<>>), Val(<<"call.value">>)}
     /\ cd.ABI = Json(Val(FnsOf(erc20Functions) \o <<Ev("Transfer")>>))}
PairSourceResponses ==
  OneThrown \cup
  {r \in SourceResponses :
     r.ok /\ r.status = "1" /\ r.result \in {Val(<<cd>>) : cd \in PairContractDatas}}
\* The answers considered for a request: all of them for an audit on its
\* own, the smaller set when audits run together.
Answers(all, together) == IF Cardinality(DOMAIN pc) <= 1 THEN all ELSE together

\* No helper is applied on its own.
NoUnit == [fn |-> "none", arg |-> <<>>, added |-> 0, applied |-> 0]
Init == InitFor({1}) /\ unit = NoUnit /\ out = JUndef

\* Mutant: the creation lookup and the source lookup are started together
\* (Promise.all) when the contract branch is entered.
AwaitedAtStartsBoth(p) ==
  CASE p = "checkIfContract" -> {"eth_getCode"}
    [] p = "getBalance" -> {"eth_getBalance"}
    [] p = "getTransactionCount" -> {"eth_getTransactionCount"}
    [] p = "getContractCreation" -> {"getcontractcreation", "getsourcecode"}
    [] p = "getTransactionByHash" -> {"eth_getTransactionByHash"}
    [] p = "getBlockReward" -> {"getblockreward"}
    [] p = "checkIfVerified" -> {}
    [] p = "getCode" -> {"eth_getCode"}
    [] OTHER -> {}

\* The request that an invocation suspended at p has sent and awaits: the
\* awaits of lines 165, 95, 99, 182, 195, 200, 229 and 118; the other
\* places await nothing that is sent out.
AwaitedAt(p) ==
  CASE p = "checkIfContract" -> {"eth_getCode"}
    [] p = "getBalance" -> {"eth_getBalance"}
    [] p = "getTransactionCount" -> {"eth_getTransactionCount"}
    [] p = "getContractCreation" -> {"getcontractcreation"}
    [] p = "getTransactionByHash" -> {"eth_getTransactionByHash"}
    [] p = "getBlockReward" -> {"getblockreward"}
    [] p = "checkIfVerified" -> {"getsourcecode"}
    [] p = "getCode" -> {"eth_getCode"}
    [] OTHER -> {}

\* Mutant: the result object is one module-level variable that every
\* invocation assigns, not a local of analyzeAddress.
GotoSharedResult(self, p, fa, res, ci, vi, bc, rep, resp, log) ==
  /\ pc' = [pc EXCEPT ![self] = p]
  /\ outstanding' = [outstanding EXCEPT ![self] = (@ \ AwaitedAt(pc[self])) \cup AwaitedAt(p)]
  /\ formattedAddress' = [formattedAddress EXCEPT ![self] = fa]
  /\ result' = [i \in DOMAIN result |-> res]
  /\ creationInfo' = [creationInfo EXCEPT ![self] = ci]
  /\ verificationInfo' = [verificationInfo EXCEPT ![self] = vi]
  /\ bytecode' = [bytecode EXCEPT ![self] = bc]
  /\ report' = [report EXCEPT ![self] = rep]
  /\ response' = [response EXCEPT ![self] = resp]
  /\ calls' = [calls EXCEPT ![self] = @ \o log]
  /\ UNCHANGED <<address, unit, out>>

\* The invocation moves to p with the given locals; log is appended to calls.
\* The step is the continuation of the await of pc[self]: the request
\* awaited there is answered, and the request awaited at p is sent.
Goto(self, p, fa, res, ci, vi, bc, rep, resp, log) ==
  /\ pc' = [pc EXCEPT ![self] = p]
  /\ outstanding' = [outstanding EXCEPT ![self] = (@ \ AwaitedAt(pc[self])) \cup AwaitedAt(p)]
  /\ formattedAddress' = [formattedAddress EXCEPT ![self] = fa]
  /\ result' = [result EXCEPT ![self] = res]
  /\ creationInfo' = [creationInfo EXCEPT ![self] = ci]
  /\ verificationInfo' = [verificationInfo EXCEPT ![self] = vi]
  /\ bytecode' = [bytecode EXCEPT ![self] = bc]
  /\ report' = [report EXCEPT ![self] = rep]
  /\ response' = [response EXCEPT ![self] = resp]
  /\ calls' = [calls EXCEPT ![self] = @ \o log]
  /\ UNCHANGED <<address, unit, out>>

\* Mutant: an audit that ended in the catch of analyzeAddress is started
\* again, once.
ReturnRetriesOnce(self, rep, log) ==
  IF (\E i \in DOMAIN log : log[i].op = "analyzeAddress")
       /\ ~(\E i \in DOMAIN calls[self] : calls[self][i].op = "retry")
  THEN Goto(self, "auditContract", NoAddress, NoResult, NoCreationInfo,
            NotVerifiedInfo, NoBytecode, NoResult, NoResponse,
            log \o <<Call("retry", "ok")>>)
  ELSE Goto(self, "formatAnalysisResults", NoAddress, NoResult, NoCreationInfo,
            NotVerifiedInfo, NoBytecode, rep, NoResponse, log)

\* analyzeAddress returns rep to the handler (lines 102, 141, 145); its
\* locals are gone.
Return(self, rep, log) ==
  Goto(self, "formatAnalysisResults", NoAddress, NoResult, NoCreationInfo,
       NotVerifiedInfo, NoBytecode, rep, NoResponse, log)

\* The places of an audit that can throw.
Sites ==
  {"isAddress", "checkIfContract", "getBalance", "getTransactionCount",
   "getContractCreation", "getTransactionByHash", "getBlockReward",
   "checkIfVerified", "JSON.parse", "getCode"}

\* Mutant: checkIfVerified has no try block.
LocalCatchNotVerified(site) ==
  site \in {"checkIfContract", "getContractCreation", "getTransactionByHash",
            "getBlockReward"}

\* Mutant: getContractCreationInfo has no try block.
LocalCatchNoCreationTry(site) ==
  site \in {"checkIfContract", "checkIfVerified", "JSON.parse"}

\* Mutant: the ABI is parsed after the try block of checkIfVerified.
LocalCatchParseOutside(site) ==
  site \in {"checkIfContract", "getContractCreation", "getTransactionByHash",
            "getBlockReward", "checkIfVerified"}

\* The places inside a try block of their own helper: checkIfContract
\* (lines 163-171), getContractCreationInfo (180-218, and 193-208 for the
\* two timestamp lookups), checkIfVerified (227-249, the axios call and the
\* JSON.parse of line 244).
LocalCatch(site) ==
  site \in {"checkIfContract", "getContractCreation", "getTransactionByHash",
            "getBlockReward", "checkIfVerified", "JSON.parse"}

\* Mutant: the try block ends before the second getCode.
InTryBlockEndsEarly(site) == site \in Sites \ {"getCode"}

\* The places executed inside the try block of analyzeAddress (lines 64-143).
InTryBlock(site) == site \in Sites

\* Mutant: the catch returns the result built so far with the error added.
ThrowKeepsResult(self, site, message, log) ==
  Return(self, [result[self] EXCEPT !.error = message],
         log \o <<Call("analyzeAddress", "caught")>>)

\* An exception reaches the body of analyzeAddress from site: the catch
\* of lines 143-153.
Throw(self, site, message, log) ==
  IF InTryBlock(site)
  THEN Return(self, analyzeAddressCatch(address[self], message),
              log \o <<Call("analyzeAddress", "caught")>>)
  ELSE Goto(self, "uncaught", NoAddress, NoResult, NoCreationInfo,
            NotVerifiedInfo, NoBytecode, NoResult, NoResponse, log)

\* Lines 26-34 and 64-74: the handler calls analyzeAddress, which validates
\* and normalizes the address and issues the first getCode.
AuditContract(self) ==
  /\ Running(self)
  /\ pc[self] = "auditContract"
  /\ IF ~isAddress(address[self])
     THEN Throw(self, "isAddress", "Invalid Ethereum address format", <<>>)
     ELSE Goto(self, "checkIfContract", toChecksumAddress(address[self]),
               result[self], creationInfo[self], verificationInfo[self],
               bytecode[self], report[self], response[self], <<>>)

\* Lines 162-172 and 74-93: getCode answers, checkIfContract returns, the
\* result object is built and the branch on isContract is taken.
CheckIfContract(self) ==
  /\ Running(self)
  /\ pc[self] = "checkIfContract"
  /\ \E resp \in Answers(GetCodeResponses, PairGetCodeResponses) :
       LET isContract == IF resp.ok THEN IsContractCode(resp.code) ELSE FALSE
           res == InitialResult(formattedAddress[self], isContract)
           log == <<Call("checkIfContract",
                         IF ~resp.ok THEN "error"
                         ELSE IF resp.code \in {EmptyCode, ZeroCode} THEN "empty"
                         ELSE "ok")>>
       IN  IF ~resp.ok /\ ~LocalCatch("checkIfContract")
           THEN Throw(self, "checkIfContract", resp.message, log)
           ELSE IF ~isContract
           THEN Goto(self, "getBalance", formattedAddress[self],
                     [res EXCEPT !.error = "Address is not a contract"],
                     creationInfo[self], verificationInfo[self], bytecode[self],
                     report[self], response[self], log)
           ELSE Goto(self, "getContractCreation", formattedAddress[self], res,
                     creationInfo[self], verificationInfo[self], bytecode[self],
                     report[self], response[self], log)

\* Lines 95-96.
GetBalance(self) ==
  /\ Running(self)
  /\ pc[self] = "getBalance"
  /\ \E resp \in Answers(GetBalanceResponses, PairGetBalanceResponses) :
       IF resp.ok
       THEN Goto(self, "getTransactionCount", formattedAddress[self],
                 [result[self] EXCEPT !.ethBalance = Val(fromWei(resp.balance))],
                 creationInfo[self], verificationInfo[self], bytecode[self],
                 report[self], response[self], <<Call("getBalance", "ok")>>)
       ELSE Throw(self, "getBalance", resp.message, <<Call("getBalance", "error")>>)

\* Lines 99-102.
GetTransactionCount(self) ==
  /\ Running(self)
  /\ pc[self] = "getTransactionCount"
  /\ \E resp \in Answers(GetTransactionCountResponses, PairGetTransactionCountResponses) :
       IF resp.ok
       THEN Return(self, [result[self] EXCEPT !.transactionCount = Val(resp.count)],
                   <<Call("getTransactionCount", "ok")>>)
       ELSE Throw(self, "getTransactionCount", resp.message,
                  <<Call("getTransactionCount", "error")>>)

\* Mutant: the bytecode is fetched right after the creation info.
AfterCreationInfoSkipsVerification == "getCode"

\* The order of the stages of the contract branch (lines 105-118).
AfterCreationInfo == "checkIfVerified"
AfterCheckIfVerified == "getCode"

\* Lines 107-111: a creation info that is not null is copied to the result.
WithCreationInfo(res, info) ==
  [res EXCEPT !.contractCreator = info.contractCreator,
              !.creationTx = info.txHash,
              !.creationTimestamp = info.timestamp]

\* Mutant: a creation info without timestamp is dropped like a null one.
CreationInfoReturnsNothing(self, info, log) ==
  Goto(self, AfterCreationInfo, formattedAddress[self],
       IF SPopulated(info.timestamp) THEN WithCreationInfo(result[self], info)
       ELSE result[self],
       NoCreationInfo, verificationInfo[self], bytecode[self], report[self],
       response[self], log)

\* getContractCreationInfo returns info (lines 210-214) to line 106.
CreationInfoReturns(self, info, log) ==
  Goto(self, AfterCreationInfo, formattedAddress[self],
       WithCreationInfo(result[self], info), NoCreationInfo,
       verificationInfo[self], bytecode[self], report[self], response[self], log)

\* Lines 179-192: the creation lookup answers.
GetContractCreation(self) ==
  /\ Running(self)
  /\ pc[self] = "getContractCreation"
  /\ \E resp \in Answers(CreationResponses, PairCreationResponses) :
       IF ~resp.ok /\ ~LocalCatch("getContractCreation")
       THEN Throw(self, "getContractCreation", resp.message,
                  <<Call("getContractCreation", "error")>>)
       ELSE IF ~resp.ok
       THEN \* caught at line 215: null, and line 107 copies nothing
            Goto(self, AfterCreationInfo, formattedAddress[self], result[self],
                 NoCreationInfo, verificationInfo[self], bytecode[self],
                 report[self], response[self],
                 <<Call("getContractCreation", "error")>>)
       ELSE IF NoFirstResult(resp)
       THEN Goto(self, AfterCreationInfo, formattedAddress[self], result[self],
                 NoCreationInfo, verificationInfo[self], bytecode[self],
                 report[self], response[self],
                 <<Call("getContractCreation", "unusable")>>)
       ELSE Goto(self, "getTransactionByHash", formattedAddress[self], result[self],
                 [contractCreator |-> resp.result.v[1].contractCreator,
                  txHash |-> resp.result.v[1].txHash,
                  timestamp |-> SNull,
                  blockNumber |-> JUndef],
                 verificationInfo[self], bytecode[self], report[self],
                 response[self], <<Call("getContractCreation", "ok")>>)

\* Lines 195-199 and 206-208: the transaction lookup answers.
GetTransactionByHash(self) ==
  /\ Running(self)
  /\ pc[self] = "getTransactionByHash"
  /\ \E resp \in Answers(TxResponses, PairTxResponses) :
       IF ~resp.ok /\ ~LocalCatch("getTransactionByHash")
       THEN Throw(self, "getTransactionByHash", resp.message,
                  <<Call("getTransactionByHash", "error")>>)
       ELSE IF ~resp.ok
       THEN CreationInfoReturns(self, creationInfo[self],
                                <<Call("getTransactionByHash", "error")>>)
       ELSE IF resp.result.t = "val" /\ resp.result.v.blockNumber.t = "val"
       THEN Goto(self, "getBlockReward", formattedAddress[self], result[self],
                 [creationInfo[self] EXCEPT
                    !.blockNumber = Val(parseIntHex(resp.result.v.blockNumber.v))],
                 verificationInfo[self], bytecode[self], report[self],
                 response[self], <<Call("getTransactionByHash", "ok")>>)
       ELSE CreationInfoReturns(self, creationInfo[self],
                                <<Call("getTransactionByHash", "unusable")>>)

\* Lines 200-214: the block lookup answers.
GetBlockReward(self) ==
  /\ Running(self)
  /\ pc[self] = "getBlockReward"
  /\ \E resp \in Answers(BlockResponses, PairBlockResponses) :
       IF ~resp.ok /\ ~LocalCatch("getBlockReward")
       THEN Throw(self, "getBlockReward", resp.message,
                  <<Call("getBlockReward", "error")>>)
       ELSE IF ~resp.ok
       THEN CreationInfoReturns(self, creationInfo[self],
                                <<Call("getBlockReward", "error")>>)
       ELSE IF resp.status = "1" /\ resp.result.t = "val"
       THEN CreationInfoReturns(self,
              [creationInfo[self] EXCEPT !.timestamp = resp.result.v.timeStamp],
              <<Call("getBlockReward",
                     IF SPopulated(resp.result.v.timeStamp) THEN "ok" ELSE "unusable")>>)
       ELSE CreationInfoReturns(self, creationInfo[self],
                                <<Call("getBlockReward", "unusable")>>)

\* How the source lookup ended, for the log of calls.
SourceOutcome(resp) ==
  IF ~resp.ok THEN "error"
  ELSE IF NoFirstResult(resp) THEN "unusable"
  ELSE IF AbiParseThrows(resp) THEN "parse error"
  ELSE IF Truthy(VerifiedFlag(resp.result.v[1].SourceCode)) THEN "verified"
  ELSE "unverified"

\* Lines 114-115 and 226-250: the source lookup answers.
CheckIfVerified(self) ==
  /\ Running(self)
  /\ pc[self] = "checkIfVerified"
  /\ \E resp \in Answers(SourceResponses, PairSourceResponses) :
       LET throws == ~resp.ok \/ AbiParseThrows(resp)
           site == IF resp.ok THEN "JSON.parse" ELSE "checkIfVerified"
           info == checkIfVerified(resp)
           log == <<Call("checkIfVerified", SourceOutcome(resp))>>
       IN  IF throws /\ ~LocalCatch(site)
           THEN Throw(self, site,
                      IF resp.ok THEN "Unexpected token in JSON" ELSE resp.message, log)
           ELSE Goto(self, AfterCheckIfVerified, formattedAddress[self],
                     [result[self] EXCEPT !.isVerified = info.isVerified],
                     creationInfo[self], info, bytecode[self], report[self],
                     response[self], log)

\* Lines 118-133: the second getCode answers and the branch on
\* verificationInfo.isVerified is taken.
GetCode(self) ==
  /\ Running(self)
  /\ pc[self] = "getCode"
  /\ \E resp \in Answers(GetCodeResponses, PairGetCodeResponses) :
       IF ~resp.ok
       THEN Throw(self, "getCode", resp.message, <<Call("getCode", "error")>>)
       ELSE LET res == [result[self] EXCEPT !.contractCode = Val(resp.code)]
                info == verificationInfo[self]
            IN  IF Truthy(info.isVerified)
                THEN Goto(self, "detectContractStandards", formattedAddress[self],
                          [res EXCEPT !.sourceCode = info.sourceCode,
                                      !.contractName = info.contractName,
                                      !.abi = info.abi],
                          creationInfo[self], info, Val(resp.code), report[self],
                          response[self], <<Call("getCode", "ok")>>)
                ELSE Goto(self, "detectContractTypeFromBytecode",
                          formattedAddress[self],
                          [res EXCEPT !.error = "Contract is not verified on Etherscan"],
                          creationInfo[self], info, Val(resp.code), report[self],
                          response[self], <<Call("getCode", "ok")>>)

\* Lines 128 and 136-141: standards, then the security analysis, then return.
DetectContractStandards(self) ==
  /\ Running(self)
  /\ pc[self] = "detectContractStandards"
  /\ LET info == verificationInfo[self]
         res == [result[self] EXCEPT
                   !.standards = Val(detectContractStandards(info.abi))]
         scanned == Truthy(info.isVerified) /\ info.sourceCode.t = "val"
                    /\ info.sourceCode.v # <<>>
     IN  IF scanned
         THEN Return(self,
                [res EXCEPT !.securityAnalysis =
                              Val(analyzeContractSecurity(info.sourceCode.v))],
                <<Call("detectContractStandards", "ok"),
                  Call("analyzeContractSecurity", "ok")>>)
         ELSE Return(self, res, <<Call("detectContractStandards", "ok")>>)

\* Lines 133-141: the bytecode is classified, then return.
DetectContractTypeFromBytecode(self) ==
  /\ Running(self)
  /\ pc[self] = "detectContractTypeFromBytecode"
  /\ Return(self,
            [result[self] EXCEPT
               !.probableType = detectContractTypeFromBytecode(bytecode[self].v)],
            <<Call("detectContractTypeFromBytecode", "ok")>>)

\* Lines 36-51: the handler renders the report, or reports the exception
\* the rendering raised.
FormatAnalysisResults(self) ==
  /\ Running(self)
  /\ pc[self] = "formatAnalysisResults"
  /\ Goto(self, "done", formattedAddress[self], result[self], creationInfo[self],
          verificationInfo[self], bytecode[self], report[self],
          IF FormatThrows(report[self])
          THEN auditContractCatch("abi.filter is not a function")
          ELSE formatAnalysisResults(report[self]),
          <<>>)

Next ==
  \E self \in Audits :
    \/ AuditContract(self)
    \/ CheckIfContract(self)
    \/ GetBalance(self)
    \/ GetTransactionCount(self)
    \/ GetContractCreation(self)
    \/ GetTransactionByHash(self)
    \/ GetBlockReward(self)
    \/ CheckIfVerified(self)
    \/ GetCode(self)
    \/ DetectContractStandards(self)
    \/ DetectContractTypeFromBytecode(self)
    \/ FormatAnalysisResults(self)

Spec == Init /\ [][Next]_vars

\* Every request is eventually answered or fails, and the continuation of
\* an answered await is eventually run by the event loop: a step that is
\* possible is eventually taken.
FairSpec == Init /\ [][Next]_vars /\ WF_vars(Next)

\* Two invocations of the handler in flight at once, for different
\* addresses: their steps interleave at the awaits.
PairAddresses == {a \in Addresses : \A i \in DOMAIN a : a[i] = a[1]}
PairInit ==
  /\ InitFor(Audits)
  /\ \A i \in Audits : address[i] \in PairAddresses
  /\ address[1] # address[2]
  /\ unit = NoUnit
  /\ out = JUndef
PairSpec == PairInit /\ [][Next]_vars

(***************************************************************************)
(* The helpers applied on their own: the argument is drawn from a bounded  *)
(* set, and each step is one call of the helper on it.                     *)
(***************************************************************************)
AbiEntryNames ==
  {erc20Functions[i] : i \in DOMAIN erc20Functions}
  \cup {erc721Functions[i] : i \in DOMAIN erc721Functions}
  \cup {erc1155Functions[i] : i \in DOMAIN erc1155Functions}
  \cup {"mint"}
AbiEntries ==
  {Fn(n) : n \in AbiEntryNames}
  \cup {Ev("Transfer"), Ev("allowance"), [type |-> "constructor", name |-> SUndef]}
SampleAbis ==
  { <<>>,
    FnsOf(erc20Functions),
    FnsOf(SubSeq(erc20Functions, 1, 5)),
    FnsOf(SubSeq(erc20Functions, 1, 5)) \o <<Ev("allowance")>>,
    FnsOf(erc721Functions),
    FnsOf(erc20Functions \o SubSeq(erc1155Functions, 1, 5)),
    FnsOf(erc20Functions \o erc721Functions),
    FnsOf(erc20Functions \o erc721Functions \o erc1155Functions) }
AbiInputs == {JNull, JUndef, JObject} \cup {Val(abi) : abi \in SampleAbis}

CodeChunks ==
  {"06fdde03", "95d89b41", "18160ddd", "01ffc9a7", "e8a3d485", "6080604052", "00"}
CodeInputs == SeqsUpTo(CodeChunks, MaxCodeLen)

SourceTokens ==
  {"call.value", "ReentrancyGuard", "tx.origin", ".call(", ".delegatecall(",
   "require(", "block.timestamp", "now", "selfdestruct", "suicide", "\n", ";"}
UnitSources ==
  { <<>>,
    <<"call.value", "tx.origin", ".call(", "now", "selfdestruct">>,
    <<"require(", ".delegatecall(">>,
    <<"require(", "\n">>,
    <<"suicide", "block.timestamp", ".delegatecall(", "tx.origin", "call.value">> }
SourceInputs ==
  {src \o added : src \in UnitSources, added \in SeqsUpTo(SourceTokens, MaxSrcAdded)}

\* The helper called, its argument, the number of entries added to the
\* argument since the start and of calls made on the present argument.
Unit(fn, arg) == [fn |-> fn, arg |-> arg, added |-> 0, applied |-> 0]
UnitInputs ==
  {Unit("checkIfVerified", resp) : resp \in SourceResponses}
  \cup {Unit("detectContractStandards", abi) : abi \in AbiInputs}
  \cup {Unit("detectContractTypeFromBytecode", code) : code \in CodeInputs}
  \cup {Unit("analyzeContractSecurity", src) : src \in SourceInputs}

UnitInit == InitFor({}) /\ unit \in UnitInputs /\ out = JUndef

\* The helper is called once more on the argument and returns value.
Applies(value) ==
  /\ unit.applied < MaxApply
  /\ unit' = [unit EXCEPT !.applied = @ + 1]
  /\ out' = value
  /\ UNCHANGED auditVars

UnitCheckIfVerified ==
  /\ unit.fn = "checkIfVerified"
  /\ Applies(IF (~unit.arg.ok /\ ~LocalCatch("checkIfVerified"))
                \/ (AbiParseThrows(unit.arg) /\ ~LocalCatch("JSON.parse"))
             THEN [t |-> "thrown"]
             ELSE Val(checkIfVerified(unit.arg)))
UnitDetectContractStandards ==
  /\ unit.fn = "detectContractStandards"
  /\ Applies(Val(detectContractStandards(unit.arg)))
\* The ABI gets one more entry and detectContractStandards is called on it.
UnitAddAbiEntry ==
  /\ unit.fn = "detectContractStandards"
  /\ unit.arg.t = "val"
  /\ unit.added < MaxAbiAdded
  /\ \E entry \in AbiEntries :
       LET abi == Val(Append(unit.arg.v, entry))
       IN  /\ unit' = [unit EXCEPT !.arg = abi, !.added = @ + 1, !.applied = 1]
           /\ out' = Val(detectContractStandards(abi))
  /\ UNCHANGED auditVars
UnitDetectContractTypeFromBytecode ==
  /\ unit.fn = "detectContractTypeFromBytecode"
  /\ Applies(Val(detectContractTypeFromBytecode(unit.arg)))
UnitAnalyzeContractSecurity ==
  /\ unit.fn = "analyzeContractSecurity"
  /\ Applies(Val(analyzeContractSecurity(unit.arg)))

UnitNext ==
  \/ UnitCheckIfVerified
  \/ UnitDetectContractStandards
  \/ UnitAddAbiEntry
  \/ UnitDetectContractTypeFromBytecode
  \/ UnitAnalyzeContractSecurity

UnitSpec == UnitInit /\ [][UnitNext]_vars

(***************************************************************************)
(* Vocabulary of the properties.                                           *)
(***************************************************************************)
\* analyzeAddress has returned its report to the handler.
Returned(self) == pc[self] \in {"formatAnalysisResults", "done"}
Has(log, op) == \E i \in DOMAIN log : log[i].op = op
HasCall(log, op, outcome) == \E i \in DOMAIN log : log[i] = Call(op, outcome)
Pos(log, op) == CHOOSE i \in DOMAIN log : log[i].op = op
Before(log, op1, op2) == Has(log, op1) /\ Has(log, op2) /\ Pos(log, op1) < Pos(log, op2)
Failed(log, op) == \E i \in DOMAIN log : log[i].op = op /\ log[i].outcome # "ok"
\* The report is the one built by the catch of analyzeAddress.
FromBoundary(self) == Has(calls[self], "analyzeAddress")

BalanceFields(rep) == JPopulated(rep.ethBalance) /\ JPopulated(rep.transactionCount)
NoBalanceFields(rep) == ~JPopulated(rep.ethBalance) /\ ~JPopulated(rep.transactionCount)

\* C1: whatever calls fail, an audit never ends in an exception that escapes
\* to the caller: analyzeAddress returns a report object and the handler
\* returns a text.
C1_NoUnhandledFault ==
  \A self \in DOMAIN pc :
    /\ pc[self] # "uncaught"
    /\ Returned(self) => report[self] # NoResult
    /\ pc[self] = "done" => response[self] # NoResponse
C1_Witness ==
  \E self \in DOMAIN pc :
    /\ pc[self] = "done"
    /\ HasCall(calls[self], "getContractCreation", "error")
    /\ HasCall(calls[self], "checkIfVerified", "error")
    /\ HasCall(calls[self], "getCode", "error")

\* C2: in every returned report, standards is present iff isVerified,
\* probableType is present iff isContract and not isVerified, and the two
\* are never both present.
C2_StandardsXorProbableType ==
  \A self \in DOMAIN pc :
    Returned(self) =>
      LET rep == report[self]
      IN  /\ JPopulated(rep.standards) <=> Truthy(rep.isVerified)
          /\ SPopulated(rep.probableType) <=> (rep.isContract /\ ~Truthy(rep.isVerified))
          /\ ~(JPopulated(rep.standards) /\ SPopulated(rep.probableType))
C2_Witness ==
  \E self \in DOMAIN pc :
    /\ pc[self] = "done"
    /\ Truthy(report[self].isVerified)
    /\ JPopulated(report[self].standards)
    /\ HasCall(calls[self], "getBlockReward", "error")

\* C3 as stated: in every returned report, the outer catch's included,
\* ethBalance and transactionCount are populated iff isContract is false.
C3_Original ==
  \A self \in DOMAIN pc :
    Returned(self) => (BalanceFields(report[self]) <=> ~report[self].isContract)
\* C3 as amended: ethBalance and transactionCount are populated together,
\* and only when isContract is false; a report with isContract false has
\* them iff it is not the report of the outer catch.
C3_BalanceOnlyForNonContracts ==
  \A self \in DOMAIN pc :
    Returned(self) =>
      LET rep == report[self]
      IN  /\ BalanceFields(rep) \/ NoBalanceFields(rep)
          /\ BalanceFields(rep) => ~rep.isContract
          /\ ~rep.isContract => (BalanceFields(rep) <=> ~FromBoundary(self))
C3_Witness ==
  \E self \in DOMAIN pc :
    /\ pc[self] = "done"
    /\ FromBoundary(self)
    /\ HasCall(calls[self], "getBalance", "ok")
    /\ ~report[self].isContract
    /\ NoBalanceFields(report[self])

\* The first call of an audit, the getCode of checkIfContract, returned the
\* empty-code sentinel.
SawEmptyCode(self) == HasCall(calls[self], "checkIfContract", "empty")
Absent3(rep) ==
  /\ ~JPopulated(rep.standards)
  /\ ~SPopulated(rep.probableType)
  /\ ~JPopulated(rep.securityAnalysis)

\* C4 as stated: when getCode returns the empty-code sentinel the report has
\* isContract false, no standards, probableType or security findings, and
\* has both ethBalance and transactionCount.
C4_Original ==
  \A self \in DOMAIN pc :
    (Returned(self) /\ SawEmptyCode(self)) =>
      /\ ~report[self].isContract
      /\ Absent3(report[self])
      /\ BalanceFields(report[self])
\* C4 as amended: ... and has both ethBalance and transactionCount when
\* getBalance and getTransactionCount both answer; when one of them fails
\* the report is the outer catch's and has neither.
C4_EmptyCodeReport ==
  \A self \in DOMAIN pc :
    (Returned(self) /\ SawEmptyCode(self)) =>
      /\ ~report[self].isContract
      /\ Absent3(report[self])
      /\ IF HasCall(calls[self], "getBalance", "ok")
            /\ HasCall(calls[self], "getTransactionCount", "ok")
         THEN BalanceFields(report[self]) /\ ~FromBoundary(self)
         ELSE NoBalanceFields(report[self]) /\ FromBoundary(self)
C4_Witness ==
  \E self \in DOMAIN pc :
    /\ pc[self] = "done"
    /\ SawEmptyCode(self)
    /\ BalanceFields(report[self])

\* C5 as stated: when the getCode of checkIfContract throws, the exception
\* reaches the outer catch: the audit has returned, and its report is the
\* catch's, with that failure as error note and isContract false.
C5_Original ==
  \A self \in DOMAIN pc :
    HasCall(calls[self], "checkIfContract", "error") =>
      /\ Returned(self)
      /\ FromBoundary(self)
      /\ ~report[self].isContract
      /\ report[self].error \in NetErrors

\* C6 as stated, for the inputs that isAddress accepts: the address of every
\* returned report is the checksum form of the input.
C6_Original ==
  \A self \in DOMAIN pc :
    (Returned(self) /\ isAddress(address[self])) =>
      report[self].address = toChecksumAddress(address[self])

\* C7: the report of the outer catch has only address and error populated
\* and isContract false, whatever the audit had resolved before the failure.
C7_BoundaryReportIsMinimal ==
  \A self \in DOMAIN pc :
    (Returned(self) /\ FromBoundary(self)) =>
      LET rep == report[self]
      IN  /\ rep.address # NoAddress
          /\ SPopulated(rep.error)
          /\ ~rep.isContract
          /\ ~Truthy(rep.isVerified)
          /\ ~SPopulated(rep.contractName)
          /\ ~SPopulated(rep.contractCreator)
          /\ ~SPopulated(rep.creationTx)
          /\ ~SPopulated(rep.creationTimestamp)
          /\ ~JPopulated(rep.contractCode)
          /\ ~JPopulated(rep.sourceCode)
          /\ rep.abi.t \in {"null", "undefined"}
          /\ NoBalanceFields(rep)
          /\ Absent3(rep)
C7_Witness ==
  \E self \in DOMAIN pc :
    /\ pc[self] = "done"
    /\ FromBoundary(self)
    /\ HasCall(calls[self], "checkIfContract", "ok")
    /\ HasCall(calls[self], "getBlockReward", "ok")
    /\ HasCall(calls[self], "checkIfVerified", "verified")
    /\ HasCall(calls[self], "getCode", "error")

CreationOps == {"getContractCreation", "getTransactionByHash", "getBlockReward"}
ComputeOps ==
  {"detectContractStandards", "analyzeContractSecurity", "detectContractTypeFromBytecode"}

\* C8: the stages of a contract audit occur in a fixed order: the creation
\* info is resolved before the verification lookup starts, the bytecode is
\* fetched after the verification lookup and before the branch on its
\* outcome, and standards detection, the security scan and the bytecode
\* classification come after both.
C8_StageOrder ==
  \A self \in DOMAIN pc :
    LET log == calls[self]
    IN  /\ (pc[self] = "checkIfVerified" \/ Has(log, "checkIfVerified")) =>
             /\ Has(log, "getContractCreation")
             /\ creationInfo[self] = NoCreationInfo
             /\ \A op \in CreationOps :
                  (Has(log, op) /\ Has(log, "checkIfVerified")) =>
                    Before(log, op, "checkIfVerified")
        /\ (pc[self] = "getCode" \/ Has(log, "getCode")) =>
             /\ Has(log, "checkIfVerified")
             /\ Has(log, "getCode") => Before(log, "checkIfVerified", "getCode")
        /\ pc[self] \in {"detectContractStandards", "detectContractTypeFromBytecode"} =>
             /\ HasCall(log, "getCode", "ok")
             /\ \A op \in ComputeOps : ~Has(log, op)
             /\ pc[self] = "detectContractStandards"
                  <=> HasCall(log, "checkIfVerified", "verified")
        /\ \A op \in ComputeOps :
             Has(log, op) =>
               /\ Before(log, "checkIfVerified", "getCode")
               /\ Before(log, "getCode", op)
C8_Witness ==
  \E self \in DOMAIN pc :
    /\ pc[self] = "done"
    /\ Has(calls[self], "getBlockReward")
    /\ Has(calls[self], "detectContractStandards")
    /\ Has(calls[self], "analyzeContractSecurity")

\* The creation lookup succeeded and the transaction or the block lookup
\* after it failed (an error or an unusable response).
TimestampLookupFailed(self) ==
  /\ HasCall(calls[self], "getContractCreation", "ok")
  /\ Failed(calls[self], "getTransactionByHash") \/ Failed(calls[self], "getBlockReward")
CreatorWithoutTimestamp(rep) ==
  /\ SPopulated(rep.contractCreator)
  /\ SPopulated(rep.creationTx)
  /\ ~SPopulated(rep.creationTimestamp)
FullVerificationData(self, rep) ==
  IF HasCall(calls[self], "checkIfVerified", "verified")
  THEN /\ Truthy(rep.isVerified)
       /\ JPopulated(rep.standards)
       /\ JPopulated(rep.sourceCode)
       /\ rep.abi.t \in {"val", "object"}
       /\ JPopulated(rep.securityAnalysis)
       /\ JPopulated(rep.contractCode)
  ELSE /\ ~Truthy(rep.isVerified)
       /\ SPopulated(rep.probableType)
       /\ JPopulated(rep.contractCode)

ExplorerOps == CreationOps \cup {"checkIfVerified"}
NodeOps == {"getBalance", "getTransactionCount", "getCode"}
FailureOutcomes == {"error", "unusable", "parse error"}
LastCall(log) == log[Len(log)]
CreationFieldsFollowLookups(self, rep) ==
  /\ SPopulated(rep.contractCreator) <=> HasCall(calls[self], "getContractCreation", "ok")
  /\ SPopulated(rep.creationTx) <=> HasCall(calls[self], "getContractCreation", "ok")
  /\ SPopulated(rep.creationTimestamp) <=> HasCall(calls[self], "getBlockReward", "ok")

ExplorerFailureAt(log, i) ==
  log[i].op \in ExplorerOps /\ log[i].outcome \in FailureOutcomes
NodeFailureAt(log, i) == log[i].op \in NodeOps /\ log[i].outcome = "error"
AnyFailure(log) ==
  \E i \in DOMAIN log :
    \/ ExplorerFailureAt(log, i)
    \/ NodeFailureAt(log, i)
    \/ log[i] = Call("checkIfContract", "error")

\* C11 as stated: whichever external call fails, explorer or node, the
\* failure is caught at its own stage: the audit never ends in the outer
\* catch, and its report keeps the fields the earlier stages resolved.
C11_Original ==
  \A self \in DOMAIN pc :
    (Returned(self) /\ AnyFailure(calls[self])) =>
      /\ ~FromBoundary(self)
      /\ CreationFieldsFollowLookups(self, report[self])
\* C11 as amended: a failed explorer call is caught at its own stage, the
\* fields of the earlier stages are kept and the next stage's call follows;
\* a failed getBalance, getTransactionCount or bytecode fetch after the
\* verification is not: the outer catch is the next thing that happens, the
\* audit returns, and the report is the catch's, with the input address, the
\* failure's message and nothing of what the earlier stages resolved.
C11_OnlyExplorerFailuresAreStageLocal ==
  \A self \in DOMAIN pc :
    LET log == calls[self]
    IN  \A i \in DOMAIN log :
          /\ ExplorerFailureAt(log, i) =>
               /\ i < Len(log) => log[i + 1].op \in ExplorerOps \cup {"getCode"}
               /\ i = Len(log) =>
                    /\ ~Returned(self)
                    /\ result[self].isContract
                    /\ CreationFieldsFollowLookups(self, result[self])
          /\ NodeFailureAt(log, i) =>
               /\ Len(log) = i + 1
               /\ log[i + 1] = Call("analyzeAddress", "caught")
               /\ Returned(self)
               /\ report[self].error \in NetErrors
               /\ report[self] = analyzeAddressCatch(address[self], report[self].error)
C11_Witness ==
  \E self \in DOMAIN pc :
    /\ pc[self] = "done"
    /\ HasCall(calls[self], "getContractCreation", "ok")
    /\ HasCall(calls[self], "getBlockReward", "unusable")
    /\ HasCall(calls[self], "checkIfVerified", "unverified")
    /\ HasCall(calls[self], "getCode", "error")
    /\ ~SPopulated(report[self].contractCreator)

NoStandardTrue(rep) ==
  rep.standards.t = "val" =>
    /\ ~rep.standards.v.isERC20
    /\ ~rep.standards.v.isERC721
    /\ ~rep.standards.v.isERC1155

Applied(fn) == unit.fn = fn /\ unit.applied > 0

\* The source lookup succeeded with a first result whose source payload is
\* present, is not the "{}" marker and is longer than 2 characters.
MeetsVerifiedCriteria(resp) ==
  /\ resp.ok
  /\ resp.status = "1"
  /\ resp.result.t = "val"
  /\ resp.result.v # <<>>
  /\ LET source == resp.result.v[1].SourceCode
     IN  /\ source.t = "val"
         /\ source.v # <<>>
         /\ source.v # EmptyObjectMarker
         /\ StrLen(source.v) > 2

\* C13 as stated: checkIfVerified returns, and what it returns says verified
\* iff the lookup succeeded with a first result whose source payload meets
\* the three criteria.
C13_Original ==
  Applied("checkIfVerified") =>
    /\ out.t = "val"
    /\ Truthy(out.v.isVerified) <=> MeetsVerifiedCriteria(unit.arg)
\* What does hold: verified iff the criteria are met and the ABI parses.
C13_VerifiedIffCriteriaAndAbiParses ==
  Applied("checkIfVerified") =>
    /\ out.t = "val"
    /\ Truthy(out.v.isVerified)
         <=> (MeetsVerifiedCriteria(unit.arg) /\ unit.arg.result.v[1].ABI.json)

\* Every name of the list is the name of some function-type entry of the ABI
\* (an ABI that is no array has no entries).
AllFunctionsPresent(required, abi) ==
  \A i \in DOMAIN required :
    /\ abi.t = "val"
    /\ \E k \in DOMAIN abi.v :
         abi.v[k].type = "function" /\ abi.v[k].name = required[i]

\* C14: each of the flags isERC20, isERC721, isERC1155 that
\* detectContractStandards returns is true iff every name of that standard's
\* required-function list names some function-type entry of the ABI, each
\* flag independently of the other two.
C14_FlagIffAllRequiredFunctions ==
  Applied("detectContractStandards") =>
    /\ out.v.isERC20 <=> AllFunctionsPresent(erc20Functions, unit.arg)
    /\ out.v.isERC721 <=> AllFunctionsPresent(erc721Functions, unit.arg)
    /\ out.v.isERC1155 <=> AllFunctionsPresent(erc1155Functions, unit.arg)
C14_Witness ==
  /\ Applied("detectContractStandards")
  /\ unit.arg.t = "val"
  /\ AllFunctionsPresent(erc20Functions, unit.arg)
  /\ AllFunctionsPresent(erc721Functions, unit.arg)
  /\ ~AllFunctionsPresent(erc1155Functions, unit.arg)
  /\ out.v.isERC20
  /\ out.v.isERC721

\* The step adds an entry to the ABI after detectContractStandards returned.
AbiEntryAdded ==
  /\ unit.fn = "detectContractStandards"
  /\ out.t = "val"
  /\ unit'.added = unit.added + 1

\* C15: adding an entry to an ABI never turns a standard flag that
\* detectContractStandards returned true into false.
C15_StandardDetectorMonotonic ==
  [][AbiEntryAdded =>
       /\ out.v.isERC20 => out'.v.isERC20
       /\ out.v.isERC721 => out'.v.isERC721
       /\ out.v.isERC1155 => out'.v.isERC1155]_vars
C15_Witness ==
  /\ Applied("detectContractStandards")
  /\ unit.added > 0
  /\ LET before == Val(SubSeq(unit.arg.v, 1, Len(unit.arg.v) - 1))
     IN  /\ AllFunctionsPresent(erc20Functions, before)
         /\ ~AllFunctionsPresent(erc1155Functions, before)
  /\ out.v.isERC20
  /\ out.v.isERC1155

\* The rules of the bytecode classifier in their declared order.
BytecodeRules ==
  << [patterns |-> {"06fdde03", "95d89b41", "18160ddd"},
      label |-> "Likely Token (ERC20/ERC721)"],
     [patterns |-> {"01ffc9a7"}, label |-> "Supports ERC165 Interface Detection"],
     [patterns |-> {"e8a3d485"}, label |-> "Possible Uniswap-related contract"],
     [patterns |-> {"6080604052"}, label |-> "Solidity 0.4.x+ Contract"] >>
RuleMatches(rule, code) == \A p \in rule.patterns : Includes(code, p)
MatchingRules(code) == {i \in DOMAIN BytecodeRules : RuleMatches(BytecodeRules[i], code)}

\* C16: detectContractTypeFromBytecode returns the label of the earliest
\* declared rule all of whose patterns occur in the bytecode, and the unknown
\* label iff no rule matches; bytecode with the three token selectors yields
\* the token label whatever else it contains.
C16_FirstMatchingRuleWins ==
  Applied("detectContractTypeFromBytecode") =>
    LET matching == MatchingRules(unit.arg)
    IN  /\ matching # {} =>
             \E i \in matching :
               /\ \A j \in matching : i <= j
               /\ out.v = BytecodeRules[i].label
        /\ out.v = "Unknown Contract Type" <=> matching = {}
        /\ RuleMatches(BytecodeRules[1], unit.arg) =>
             out.v = "Likely Token (ERC20/ERC721)"
C16_Witness ==
  /\ Applied("detectContractTypeFromBytecode")
  /\ MatchingRules(unit.arg) = {1, 2}
  /\ out.v = "Likely Token (ERC20/ERC721)"

\* The findings of the security scanner in the order of their rules.
SecurityFindings ==
  << Issue("High", "Potential reentrancy vulnerability"),
     Issue("Medium", "tx.origin used for authentication"),
     Issue("Medium", "Unchecked external call"),
     Issue("Low", "Timestamp dependence"),
     Issue("High", "Unprotected self-destruct") >>
\* The source triggers the i-th rule.
Triggers(i, src) ==
  CASE i = 1 -> Includes(src, "call.value") /\ ~Includes(src, "ReentrancyGuard")
    [] i = 2 -> Includes(src, "tx.origin")
    [] i = 3 -> (Includes(src, ".call(") \/ Includes(src, ".delegatecall("))
                /\ ~MatchesRequireCall(src)
    [] i = 4 -> Includes(src, "block.timestamp") \/ Includes(src, "now")
    [] i = 5 -> Includes(src, "selfdestruct") \/ Includes(src, "suicide")
RuleOf(finding) == CHOOSE i \in DOMAIN SecurityFindings : SecurityFindings[i] = finding
Count(list, x) == Cardinality({i \in DOMAIN list : list[i] = x})

\* C17: analyzeContractSecurity evaluates each of its five rules on every
\* source whatever the other rules found: a rule's finding is in the list
\* iff the source triggers that rule, at most once, so the list has at most
\* five findings, and they are in the order of the rules.
C17_AllRulesInDeclaredOrder ==
  Applied("analyzeContractSecurity") =>
    LET issues == out.v.issues
    IN  /\ Len(issues) <= 5
        /\ \A k \in DOMAIN issues : \E i \in DOMAIN SecurityFindings :
             issues[k] = SecurityFindings[i]
        /\ \A i \in DOMAIN SecurityFindings :
             Count(issues, SecurityFindings[i]) = IF Triggers(i, unit.arg) THEN 1 ELSE 0
        /\ \A k, l \in DOMAIN issues : k < l => RuleOf(issues[k]) < RuleOf(issues[l])
        /\ out.v.issuesFound <=> issues # <<>>
C17_Witness ==
  /\ Applied("analyzeContractSecurity")
  /\ out.v.issues = SecurityFindings

ReentrancyFinding == Issue("High", "Potential reentrancy vulnerability")

\* C19: in the report of a verified contract the findings are present, and
\* they hold the High "Potential reentrancy vulnerability" finding exactly
\* once when the source contains call.value and nowhere the guard marker, and
\* not at all when the source contains the guard marker.
C19_ReentrancyFindingOnce ==
  \A self \in DOMAIN pc :
    (Returned(self) /\ Truthy(report[self].isVerified)) =>
      LET rep == report[self]
          src == rep.sourceCode.v
      IN  /\ rep.sourceCode.t = "val"
          /\ rep.securityAnalysis.t = "val"
          /\ (Includes(src, "call.value") /\ ~Includes(src, "ReentrancyGuard")) =>
               Count(rep.securityAnalysis.v.issues, ReentrancyFinding) = 1
          /\ Includes(src, "ReentrancyGuard") =>
               Count(rep.securityAnalysis.v.issues, ReentrancyFinding) = 0
C19_Witness ==
  \E self \in DOMAIN pc :
    /\ pc[self] = "done"
    /\ Truthy(report[self].isVerified)
    /\ Includes(report[self].sourceCode.v, "call.value")
    /\ ~Includes(report[self].sourceCode.v, "ReentrancyGuard")
    /\ Count(report[self].securityAnalysis.v.issues, ReentrancyFinding) = 1

UncheckedCallFinding == Issue("Medium", "Unchecked external call")
\* The source has a require( followed on the same line by a raw or a
\* delegate call.
RequireWrapsLowLevelCall(src) ==
  \E i, j \in DOMAIN src :
    /\ i < j
    /\ src[i] = "require("
    /\ src[j] \in {".call(", ".delegatecall("}
    /\ \A k \in (i + 1)..(j - 1) : src[k] # "\n"

\* C20 as stated: the "Unchecked external call" finding is produced iff the
\* source has a raw or a delegate call and nowhere a require that wraps such
\* a call, raw or delegate; a source whose only low-level calls are delegate
\* calls wrapped in require gets no such finding.
C20_Original ==
  Applied("analyzeContractSecurity") =>
    (Count(out.v.issues, UncheckedCallFinding) = 1
       <=> /\ Includes(unit.arg, ".call(") \/ Includes(unit.arg, ".delegatecall(")
           /\ ~RequireWrapsLowLevelCall(unit.arg))

ExternalRequests ==
  {"eth_getCode", "eth_getBalance", "eth_getTransactionCount", "getcontractcreation",
   "eth_getTransactionByHash", "getblockreward", "getsourcecode"}
\* The step sends a request of the invocation.
Sends(self) == outstanding'[self] \ outstanding[self] # {}

\* C21: an audit invocation has at most one request to the node or the
\* explorer outstanding at any moment, the transaction and block lookups of
\* the creation info included, none once it has returned, and it sends a
\* request only in a step in which the one before is answered.
C21_OneOutstandingCall ==
  /\ [](\A self \in DOMAIN pc :
          /\ outstanding[self] \subseteq ExternalRequests
          /\ Cardinality(outstanding[self]) <= 1
          /\ Returned(self) => outstanding[self] = {})
  /\ [][\A self \in DOMAIN pc :
          Sends(self) =>
            /\ outstanding[self] \cap outstanding'[self] = {}
            /\ Cardinality(outstanding'[self]) = 1
            /\ pc[self] # "auditContract" => Len(calls'[self]) = Len(calls[self]) + 1]_vars
C21_Witness ==
  \E self \in DOMAIN pc :
    /\ outstanding[self] = {"getblockreward"}
    /\ HasCall(calls[self], "getContractCreation", "ok")
    /\ LastCall(calls[self]) = Call("getTransactionByHash", "ok")

BalanceOps == {"getBalance", "getTransactionCount"}
ContractBranchOps == ExplorerOps \cup {"getCode"} \cup ComputeOps

\* C24: the audit branches once, on what checkIfContract returned: when it
\* returned false the audit makes only the getBalance and getTransactionCount
\* calls, in that order, and no explorer call, bytecode fetch, standards
\* detection, bytecode classification or security scan; when it returned true
\* the audit never calls getBalance or getTransactionCount.
C24_BranchFrame ==
  \A self \in DOMAIN pc :
    LET log == calls[self]
    IN  /\ Count([i \in DOMAIN log |-> log[i].op], "checkIfContract") <= 1
        /\ (Has(log, "checkIfContract") /\ ~HasCall(log, "checkIfContract", "ok")) =>
             /\ \A op \in ContractBranchOps : ~Has(log, op)
             /\ pc[self] \in {"getBalance", "getTransactionCount",
                              "formatAnalysisResults", "done"}
             /\ ~result[self].isContract
             /\ Has(log, "getTransactionCount") => Before(log, "getBalance", "getTransactionCount")
        /\ HasCall(log, "checkIfContract", "ok") =>
             /\ \A op \in BalanceOps : ~Has(log, op)
             /\ pc[self] \notin {"getBalance", "getTransactionCount"}
        /\ \A op \in BalanceOps \cup ContractBranchOps :
             Has(log, op) => Before(log, "checkIfContract", op)
C24_Witness ==
  \E self \in DOMAIN pc :
    /\ pc[self] = "done"
    /\ HasCall(calls[self], "checkIfContract", "empty")
    /\ HasCall(calls[self], "getBalance", "ok")
    /\ HasCall(calls[self], "getTransactionCount", "ok")
    /\ Len(calls[self]) = 3

\* C26 as stated: a report with isContract true holds bytecode that is code,
\* not the empty-code sentinel, and its probable type is the classification
\* of that code, whatever the node answered to the second read.
C26_Original ==
  \A self \in DOMAIN pc :
    (Returned(self) /\ report[self].isContract) =>
      /\ report[self].contractCode.t = "val"
      /\ IsContractCode(report[self].contractCode.v)
      /\ SPopulated(report[self].probableType) =>
           report[self].probableType =
             detectContractTypeFromBytecode(report[self].contractCode.v)

\* What a rendered text displays: a line with this label whose value is a
\* concrete one (not the word undefined or null, not "Invalid Date").
Displays(text, label) ==
  \E i \in DOMAIN text :
    /\ text[i].label = label
    /\ text[i].shown.t \in {"val", "date"}

\* C23 as stated: the text rendered from a report displays no concrete value
\* for a field the audit could not resolve: no creation time when the
\* creator is present and the timestamp is absent, no balance and no
\* transaction count when the report has none.
C23_Original ==
  \A self \in DOMAIN pc :
    pc[self] = "done" =>
      /\ CreatorWithoutTimestamp(report[self]) =>
           ~Displays(response[self], "Creation Time")
      /\ NoBalanceFields(report[self]) =>
           /\ ~Displays(response[self], "ETH Balance")
           /\ ~Displays(response[self], "Transaction Count")

\* C27 as stated: the text rendered from a report whose error note is set
\* contains that note.
C27_Original ==
  \A self \in DOMAIN pc :
    (pc[self] = "done" /\ STruthy(report[self].error)
       /\ ~FormatThrows(report[self])) =>
      \E i \in DOMAIN response[self] :
        /\ response[self][i].label = "Info"
        /\ response[self][i].shown = Show(report[self].error)

\* The calls of an audit that leave the process.
ExternalOps == {"checkIfContract"} \cup ExplorerOps \cup NodeOps
TimesCalled(log, op) == Cardinality({i \in DOMAIN log : log[i].op = op})
\* The order of the places of an audit along its two branches.
Stage(p) ==
  CASE p = "auditContract" -> 0
    [] p = "checkIfContract" -> 1
    [] p \in {"getBalance", "getContractCreation"} -> 2
    [] p \in {"getTransactionCount", "getTransactionByHash"} -> 3
    [] p = "getBlockReward" -> 4
    [] p = "checkIfVerified" -> 5
    [] p = "getCode" -> 6
    [] p \in {"detectContractStandards", "detectContractTypeFromBytecode"} -> 7
    [] p = "formatAnalysisResults" -> 8
    [] OTHER -> 9

\* C25: when every request is eventually answered or fails, every audit
\* eventually is done with a report and a text; each external call is made
\* at most once per audit (the bytecode twice: once by checkIfContract, once
\* by the later getCode), a failed call is the last call of its kind, and
\* every step moves the audit to a later stage.
C25_TerminatesWithoutRetry ==
  /\ <>(\A self \in DOMAIN pc :
          /\ pc[self] = "done"
          /\ report[self] # NoResult
          /\ response[self] # NoResponse)
  /\ [](\A self \in DOMAIN pc :
          /\ \A op \in ExternalOps : TimesCalled(calls[self], op) <= 1
          /\ Len(calls[self]) <= 9)
  /\ [][\A self \in DOMAIN pc :
          pc'[self] # pc[self] => Stage(pc'[self]) > Stage(pc[self])]_vars
\* An audit is done after a failed lookup that was not tried again.
C25_Witness ==
  \E self \in DOMAIN pc :
    /\ pc[self] = "done"
    /\ HasCall(calls[self], "getTransactionByHash", "error")
    /\ HasCall(calls[self], "checkIfVerified", "error")
    /\ HasCall(calls[self], "getCode", "ok")
    /\ TimesCalled(calls[self], "getTransactionByHash") = 1
    /\ TimesCalled(calls[self], "checkIfVerified") = 1

\* Everything an invocation holds.
Locals(i) ==
  <<pc[i], address[i], formattedAddress[i], result[i], creationInfo[i],
    verificationInfo[i], bytecode[i], report[i], response[i], calls[i],
    outstanding[i]>>
\* The report an audit of address a returns for the calls logged in log, as
\* far as the address and the branch go.
OwnReport(rep, a, log) ==
  /\ rep.address \in {a, toChecksumAddress(a)}
  /\ rep.isContract =
       (HasCall(log, "checkIfContract", "ok") /\ ~Has(log, "analyzeAddress"))
  /\ JPopulated(rep.ethBalance) = HasCall(log, "getTransactionCount", "ok")
  /\ SPopulated(rep.contractCreator) =
       (HasCall(log, "getContractCreation", "ok") /\ ~Has(log, "analyzeAddress"))

\* C22: two audits in flight together do not touch each other: a step
\* changes what one invocation holds and nothing of the other, whose
\* pending step and its outcome are therefore what they were; and the
\* report each returns is about its own address and built from the answers
\* to its own calls.
C22_InvocationsIndependent ==
  /\ [][\A self \in DOMAIN pc :
          Locals(self)' # Locals(self) =>
            \A other \in DOMAIN pc \ {self} : Locals(other)' = Locals(other)]_vars
  /\ [][DOMAIN pc' = DOMAIN pc /\ address' = address]_vars
  /\ [](\A self \in DOMAIN pc :
          Returned(self) => OwnReport(report[self], address[self], calls[self]))
\* Both audits are done, one of a contract and one of an address without
\* code, and the second finished its calls while the first was running.
C22_Witness ==
  /\ DOMAIN pc = {1, 2}
  /\ pc[1] = "done" /\ pc[2] = "done"
  /\ report[1].isContract /\ Truthy(report[1].isVerified)
  /\ ~report[2].isContract /\ BalanceFields(report[2])
  /\ report[1].address # report[2].address

=============================================================================
